---- MODULE Spec2Model ----
(***************************************************************************)
(* State-machine model of the sentinel-unity SpacetimeDB server module     *)
(* (Server/src): the movement arbiter (player.rs), the navmesh index       *)
(* (navmesh.rs), the lootable respawn ledger (lootable.rs) and the         *)
(* inventory grant (inventory.rs).                                         *)
(*                                                                         *)
(* Units.  The code computes in f32 metres and i64 microseconds.  The      *)
(* model computes exactly, on a lattice: a length is an integer number of  *)
(* quarter-metres (1.5 m = 6, 6.0 m/s = 24 per second) and a timestamp is  *)
(* an integer number of 25 ms ticks (50 ms = 2, 30 s = 1200, one second =  *)
(* 40).  Every comparison the code makes on floats is made here on the     *)
(* exact rationals, cross-multiplied so that no division is needed; f32    *)
(* rounding is not modelled.                                               *)
(***************************************************************************)
EXTENDS Integers, Sequences, FiniteSets, TLC

(***************************************************************************)
(* Bounds of the model.                                                    *)
(***************************************************************************)
MaxTime == 4            \* last clock value of the movement specification
MaxLootSteps == 2       \* clock steps (15 s each) of the loot specification
MaxRecordTime == 3      \* last clock value of the record specification
MaxPoints == 1          \* navmesh points ever uploaded

Identities == {"p1", "p2"}

Vec3(x, y, z) == [x |-> x, y |-> y, z |-> z]

ZeroVec == Vec3(0, 0, 0)

(***************************************************************************)
(* types.rs  DbVector3::distance, squared (sqrt is monotone, so every      *)
(* comparison of a distance is made on the squares).                       *)
(***************************************************************************)
DistanceSq(a, b) ==
    (a.x - b.x) * (a.x - b.x) + (a.y - b.y) * (a.y - b.y) + (a.z - b.z) * (a.z - b.z)

Abs(n) == IF n < 0 THEN -n ELSE n

(***************************************************************************)
(* Program constants, in model units.                                      *)
(***************************************************************************)
MICROS_PER_SECOND == 40       \* player.rs:149  1_000_000 us = 40 ticks
MIN_TIME_DELTA == 2           \* player.rs:144  0.05 s = 2 ticks
SPEED_TOLERANCE_NUM == 5      \* player.rs:145  1.25 = 5/4
SPEED_TOLERANCE_DEN == 4
MOVEMENT_SPEED == 24          \* player.rs:65   6.0 m/s
INTERACTION_RANGE == 12       \* player.rs:66   3.0 m
SAFETY_MARGIN == 6            \* player.rs:67   1.5 m
MAX_HEALTH == 100             \* entity.rs:41
ATTACK_RANGE == 12            \* entity.rs:43   3.0 m
INVENTORY_SIZE == 32          \* inventory.rs:53
RESPAWN_TIME == 1200          \* lootable.rs:56 30_000_000 us

VARIABLES
    now,                \* host clock: ctx.timestamp of the next reducer call
    world_spawn,        \* table world_spawn: id -> row
    entity,             \* table entity: entity_id -> row
    entity_seq,         \* auto_inc sequence of entity.entity_id
    player,             \* table player: identity -> row
    player_seq,         \* auto_inc sequence of player.player_id
    inventory,          \* table inventory: identity -> row
    navmesh_config,     \* table navmesh_config: id -> row
    navmesh_grid,       \* table navmesh_grid: set of rows
    navmesh_seq,        \* auto_inc sequence of navmesh_grid.id
    lootable_item_type, \* table lootable_item_type: type_id -> row
    lootable_spawn,     \* table lootable_spawn: spawn_id -> row
    admin,              \* table admin: set of identities
    result,             \* the last reducer call: name, sender, inputs, outcome
    accepted,           \* history: identity -> candidate of its last accepted move
    last_loot_ok,       \* history: spawn_id -> timestamp of its last successful loot, -1 if none
    lazy_spawn,         \* shadow: table lootable_spawn of the same calls with every sweep left out
    lootable_spawn_seq  \* auto_inc sequence of lootable_spawn.spawn_id

vars == << now, world_spawn, entity, entity_seq, player, player_seq, inventory,
           navmesh_config, navmesh_grid, navmesh_seq, lootable_item_type,
           lootable_spawn, admin, result, accepted, last_loot_ok, lazy_spawn,
           lootable_spawn_seq >>

(***************************************************************************)
(* Partial-function helpers for the tables.                                *)
(***************************************************************************)
Put(f, k, v) == [i \in DOMAIN f \cup {k} |-> IF i = k THEN v ELSE f[i]]

Remove(f, ks) == [i \in DOMAIN f \ ks |-> f[i]]

EmptyTable == [i \in {} |-> 0]

Idle == [op |-> "none"]

(***************************************************************************)
(* world_spawn.rs                                                          *)
(***************************************************************************)
world_spawn_set(ws, id, position, rotation) ==
    IF id \in DOMAIN ws
    THEN Put(ws, id, [position |-> position, rotation |-> rotation])
    ELSE Put(ws, 0, [position |-> Vec3(0, 208, -936), rotation |-> ZeroVec])

world_spawn_init == world_spawn_set(EmptyTable, 0, Vec3(0, 8, 0), ZeroVec)

(***************************************************************************)
(* lootable.rs  lootable_item_type_init: three types, two spawns.  The     *)
(* spawn positions are the source's, rounded to the lattice.               *)
(***************************************************************************)
ItemType(quantity, loot_distance) ==
    [quantity |-> quantity, respawn_time_us |-> RESPAWN_TIME, loot_distance |-> loot_distance]

lootable_item_type_init ==
    (0 :> ItemType(5, 6)) @@ (1 :> ItemType(5, 6)) @@ (2 :> ItemType(15, 10))

Spawn(type_id, position, rotation) ==
    [type_id |-> type_id, position |-> position, rotation |-> rotation,
     is_looted |-> FALSE, looted_at_us |-> 0]

lootable_spawn_init ==
    (1 :> Spawn(0, Vec3(-881, -119, 1020), Vec3(0, 86, 0)))
    @@ (2 :> Spawn(1, Vec3(-893, -119, 1018), Vec3(0, 0, -90)))

(***************************************************************************)
(* lib.rs  init                                                            *)
(***************************************************************************)
Init ==
    /\ now = 0
    /\ world_spawn = world_spawn_init
    /\ entity = EmptyTable
    /\ entity_seq = 0
    /\ player = EmptyTable
    /\ player_seq = 0
    /\ inventory = EmptyTable
    /\ navmesh_config = EmptyTable
    /\ navmesh_grid = {}
    /\ navmesh_seq = 0
    /\ lootable_item_type = lootable_item_type_init
    /\ lootable_spawn = lootable_spawn_init
    /\ admin = {}
    /\ result = Idle
    /\ accepted = EmptyTable
    /\ last_loot_ok = [s \in DOMAIN lootable_spawn_init |-> -1]
    /\ lazy_spawn = lootable_spawn_init
    /\ lootable_spawn_seq = Cardinality(DOMAIN lootable_spawn_init)

(***************************************************************************)
(* The host clock.  ctx.timestamp never decreases; two reducer calls may   *)
(* carry the same timestamp.  A tick ends the observation of the last      *)
(* call.                                                                   *)
(***************************************************************************)
Tick(d, limit) ==
    /\ now + d <= limit
    /\ now' = now + d
    /\ result' = Idle
    /\ UNCHANGED << world_spawn, entity, entity_seq, player, player_seq, inventory,
                    navmesh_config, navmesh_grid, navmesh_seq, lootable_item_type,
                    lootable_spawn, admin, accepted, last_loot_ok, lazy_spawn,
                    lootable_spawn_seq >>

(***************************************************************************)
(* entity.rs  entity_create: the row inserted for a new player.            *)
(***************************************************************************)
entity_create ==
    LET at == IF 0 \in DOMAIN world_spawn
              THEN << world_spawn[0].position, world_spawn[0].rotation >>
              ELSE << ZeroVec, ZeroVec >>
    IN  [position |-> at[1], rotation |-> at[2], health |-> MAX_HEALTH,
         max_health |-> MAX_HEALTH, attack_range |-> ATTACK_RANGE]

(***************************************************************************)
(* player.rs  player_create: the row inserted for ctx.sender.              *)
(***************************************************************************)
player_create(e, entity_id) ==
    [player_id |-> player_seq + 1, entity_id |-> entity_id, online |-> TRUE,
     look_direction |-> << 0, 0 >>, animation_state |-> 0,
     last_valid_position |-> e.position, last_update_timestamp |-> now,
     movement_speed |-> MOVEMENT_SPEED, interaction_range |-> INTERACTION_RANGE,
     reconciliation_safety_margin |-> SAFETY_MARGIN]

(***************************************************************************)
(* inventory.rs  inventory_create: the row inserted for ctx.sender.        *)
(***************************************************************************)
inventory_row == [size |-> INVENTORY_SIZE, items |-> << >>]

(***************************************************************************)
(* player.rs  player_set_online_status                                     *)
(***************************************************************************)
player_set_online_status(p, online) ==
    IF p \in DOMAIN player
    THEN [player EXCEPT ![p].online = online]
    ELSE player

(***************************************************************************)
(* player.rs  player_connected.  A known identity goes online.  A new one  *)
(* gets an entity, a player row and an inventory in one transaction; the   *)
(* inventory insert violates the primary key when the identity created an  *)
(* inventory before (reducer inventory_create), and the panic aborts the   *)
(* whole transaction.  The creative camera (module not modelled) has no    *)
(* effect on the tables here.                                              *)
(***************************************************************************)
PlayerConnected(p) ==
    /\ IF p \in DOMAIN player
       THEN /\ player' = player_set_online_status(p, TRUE)
            /\ result' = [op |-> "player_connected", sender |-> p, ok |-> TRUE]
            /\ UNCHANGED << entity, entity_seq, player_seq, inventory, accepted >>
       ELSE IF p \in DOMAIN inventory
       THEN /\ result' = [op |-> "player_connected", sender |-> p, ok |-> FALSE]
            /\ UNCHANGED << entity, entity_seq, player, player_seq, inventory, accepted >>
       ELSE LET e == entity_create
                id == entity_seq + 1
            IN  /\ entity' = Put(entity, id, e)
                /\ entity_seq' = id
                /\ player' = Put(player, p, player_create(e, id))
                /\ player_seq' = player_seq + 1
                /\ inventory' = Put(inventory, p, inventory_row)
                /\ accepted' = Put(accepted, p, e.position)
                /\ result' = [op |-> "player_connected", sender |-> p, ok |-> TRUE]
    /\ UNCHANGED << now, world_spawn, navmesh_config, navmesh_grid, navmesh_seq,
                    lootable_item_type, lootable_spawn, admin, last_loot_ok, lazy_spawn,
                    lootable_spawn_seq >>

(***************************************************************************)
(* lib.rs  disconnect                                                      *)
(***************************************************************************)
Disconnect(p) ==
    /\ player' = player_set_online_status(p, FALSE)
    /\ result' = [op |-> "disconnect", sender |-> p, ok |-> TRUE]
    /\ UNCHANGED << now, world_spawn, entity, entity_seq, player_seq, inventory,
                    navmesh_config, navmesh_grid, navmesh_seq, lootable_item_type,
                    lootable_spawn, admin, accepted, last_loot_ok, lazy_spawn,
                    lootable_spawn_seq >>

(***************************************************************************)
(* inventory.rs  inventory_create (reducer): a second insert for the same  *)
(* identity panics and changes nothing.                                    *)
(***************************************************************************)
InventoryCreate(p) ==
    /\ IF p \in DOMAIN inventory
       THEN /\ result' = [op |-> "inventory_create", sender |-> p, ok |-> FALSE]
            /\ UNCHANGED inventory
       ELSE /\ inventory' = Put(inventory, p, inventory_row)
            /\ result' = [op |-> "inventory_create", sender |-> p, ok |-> TRUE]
    /\ UNCHANGED << now, world_spawn, entity, entity_seq, player, player_seq,
                    navmesh_config, navmesh_grid, navmesh_seq, lootable_item_type,
                    lootable_spawn, admin, accepted, last_loot_ok, lazy_spawn,
                    lootable_spawn_seq >>

(***************************************************************************)
(* navmesh.rs  navmesh_upload_point: the caller supplies grid_x and        *)
(* grid_z; the row is inserted as given.                                   *)
(***************************************************************************)
NavmeshUploadPoint(x, y, z, grid_x, grid_z) ==
    /\ navmesh_seq < MaxPoints
    /\ navmesh_seq' = navmesh_seq + 1
    /\ navmesh_grid' = navmesh_grid \cup
           {[id |-> navmesh_seq + 1, x |-> x, y |-> y, z |-> z,
             grid_x |-> grid_x, grid_z |-> grid_z]}
    /\ result' = [op |-> "navmesh_upload_point", ok |-> TRUE, id |-> navmesh_seq + 1]
    /\ UNCHANGED << now, world_spawn, entity, entity_seq, player, player_seq, inventory,
                    navmesh_config, lootable_item_type, lootable_spawn, admin,
                    accepted, last_loot_ok, lazy_spawn,
                    lootable_spawn_seq >>

(***************************************************************************)
(* navmesh.rs  navmesh_set_config: update of row 0, or its insert.         *)
(***************************************************************************)
NavmeshConfigRow(cell_size, z_tolerance, bounds_min_x, bounds_min_z) ==
    [cell_size |-> cell_size, z_tolerance |-> z_tolerance,
     bounds_min_x |-> bounds_min_x, bounds_min_z |-> bounds_min_z]

\* Variant: the row is inserted when there is none and left alone otherwise.
NavmeshSetConfigInsertOnly(cell_size, z_tolerance, bounds_min_x, bounds_min_z) ==
    /\ navmesh_config' =
           IF 0 \in DOMAIN navmesh_config
           THEN navmesh_config
           ELSE Put(navmesh_config, 0,
                    NavmeshConfigRow(cell_size, z_tolerance, bounds_min_x, bounds_min_z))
    /\ result' = [op |-> "navmesh_set_config", ok |-> TRUE,
                  config |-> NavmeshConfigRow(cell_size, z_tolerance,
                                              bounds_min_x, bounds_min_z)]
    /\ UNCHANGED << now, world_spawn, entity, entity_seq, player, player_seq, inventory,
                    navmesh_grid, navmesh_seq, lootable_item_type, lootable_spawn,
                    admin, accepted, last_loot_ok, lazy_spawn,
                    lootable_spawn_seq >>

NavmeshSetConfig(cell_size, z_tolerance, bounds_min_x, bounds_min_z) ==
    /\ navmesh_config' = Put(navmesh_config, 0,
           NavmeshConfigRow(cell_size, z_tolerance, bounds_min_x, bounds_min_z))
    /\ result' = [op |-> "navmesh_set_config", ok |-> TRUE,
                  config |-> NavmeshConfigRow(cell_size, z_tolerance,
                                              bounds_min_x, bounds_min_z)]
    /\ UNCHANGED << now, world_spawn, entity, entity_seq, player, player_seq, inventory,
                    navmesh_grid, navmesh_seq, lootable_item_type, lootable_spawn,
                    admin, accepted, last_loot_ok, lazy_spawn,
                    lootable_spawn_seq >>

(***************************************************************************)
(* navmesh.rs  navmesh_clear_grid                                          *)
(***************************************************************************)
NavmeshClearGrid ==
    /\ navmesh_grid' = {}
    /\ result' = [op |-> "navmesh_clear_grid", ok |-> TRUE]
    /\ UNCHANGED << now, world_spawn, entity, entity_seq, player, player_seq, inventory,
                    navmesh_config, navmesh_seq, lootable_item_type, lootable_spawn,
                    admin, accepted, last_loot_ok, lazy_spawn,
                    lootable_spawn_seq >>

(***************************************************************************)
(* navmesh.rs  is_position_valid.  No configuration: true.  Otherwise the  *)
(* candidate's cell is floor((coord - bounds_min) / cell_size), and the    *)
(* rows of the 3x3 block of cells around it are tested:                    *)
(*   dx^2 + dz^2 <= (cell_size * 1.5)^2   and   |dy| <= z_tolerance.       *)
(* cell_size is positive in every configuration the model sets.            *)
(***************************************************************************)
\* Variant: the vertical test is strict.
PointAcceptsStrictVertical(cfg, point, x, y, z) ==
    /\ 4 * ((x - point.x) * (x - point.x) + (z - point.z) * (z - point.z))
           <= 9 * cfg.cell_size * cfg.cell_size
    /\ Abs(y - point.y) < cfg.z_tolerance

PointAccepts(cfg, point, x, y, z) ==
    /\ 4 * ((x - point.x) * (x - point.x) + (z - point.z) * (z - point.z))
           <= 9 * cfg.cell_size * cfg.cell_size
    /\ Abs(y - point.y) <= cfg.z_tolerance

\* Variant: without a configuration every position is rejected.
is_position_valid_fail_closed(config, grid, x, y, z) ==
    /\ 0 \in DOMAIN config
    /\ LET cfg == config[0]
           grid_x == (x - cfg.bounds_min_x) \div cfg.cell_size
           grid_z == (z - cfg.bounds_min_z) \div cfg.cell_size
       IN  \E dx \in -1..1, dz \in -1..1 :
               \E point \in grid :
                   /\ point.grid_x = grid_x + dx
                   /\ point.grid_z = grid_z + dz
                   /\ PointAccepts(cfg, point, x, y, z)

is_position_valid(config, grid, x, y, z) ==
    IF 0 \notin DOMAIN config
    THEN TRUE
    ELSE LET cfg == config[0]
             grid_x == (x - cfg.bounds_min_x) \div cfg.cell_size
             grid_z == (z - cfg.bounds_min_z) \div cfg.cell_size
         IN  \E dx \in -1..1, dz \in -1..1 :
                 \E point \in grid :
                     /\ point.grid_x = grid_x + dx
                     /\ point.grid_z = grid_z + dz
                     /\ PointAccepts(cfg, point, x, y, z)

(***************************************************************************)
(* player.rs:147-159  the speed gate of player_set_position.               *)
(*   time_delta_secs = micros / 1_000_000        (here ticks / 40)         *)
(*   speed = horizontal_distance / time_delta_secs                         *)
(*   max_allowed_speed = movement_speed * 1.25                             *)
(* SpeedChecked: the gate is applied.  SpeedExceeds: speed >               *)
(* max_allowed_speed, on the squared horizontal distance hd2:              *)
(*   sqrt(hd2) * 40 * 4 > movement_speed * 5 * micros,                     *)
(* evaluated through the integer quotient of the right side by 160 so that *)
(* no intermediate product leaves the integer range.                       *)
(***************************************************************************)
\* Variant: the displacement counts the vertical axis.
HorizontalSqWithY(a, b) ==
    (a.x - b.x) * (a.x - b.x) + (a.y - b.y) * (a.y - b.y) + (a.z - b.z) * (a.z - b.z)

HorizontalSq(a, b) == (a.x - b.x) * (a.x - b.x) + (a.z - b.z) * (a.z - b.z)

\* Variants: the sampling interval compared with >=, and doubled.
SpeedCheckedInclusive(time_delta_micros) == time_delta_micros >= MIN_TIME_DELTA

SpeedCheckedLate(time_delta_micros) == time_delta_micros > 2 * MIN_TIME_DELTA

SpeedChecked(time_delta_micros) == time_delta_micros > MIN_TIME_DELTA

\* Variant: speed >= max_allowed_speed.
SpeedReaches(hd2, time_delta_micros, movement_speed) ==
    LET num == movement_speed * SPEED_TOLERANCE_NUM * time_delta_micros
        den == MICROS_PER_SECOND * SPEED_TOLERANCE_DEN
        q == num \div den
        r == num % den
    IN  IF hd2 < q * q THEN FALSE
        ELSE IF hd2 >= (q + 1) * (q + 1) THEN TRUE
        ELSE (hd2 - q * q) * den * den >= 2 * den * q * r + r * r

SpeedExceeds(hd2, time_delta_micros, movement_speed) ==
    LET num == movement_speed * SPEED_TOLERANCE_NUM * time_delta_micros
        den == MICROS_PER_SECOND * SPEED_TOLERANCE_DEN
        q == num \div den
        r == num % den
    IN  IF hd2 <= q * q THEN FALSE
        ELSE IF hd2 >= (q + 1) * (q + 1) THEN TRUE
        ELSE (hd2 - q * q) * den * den > 2 * den * q * r + r * r

(***************************************************************************)
(* player.rs  player_set_position, one definition per return.              *)
(*                                                                         *)
(* The two rejections write entity.position := last_valid_position and     *)
(* then return Err.  Whether the host keeps the writes of a reducer that   *)
(* returns Err is not decided by this code: rolled_back is the host's      *)
(* choice, and both outcomes are modelled.  accepted records the candidate *)
(* of the last call that returned Ok.                                      *)
(***************************************************************************)
SetPositionResult(p, position, ok, err, dt, hd2) ==
    [op |-> "player_set_position", sender |-> p, position |-> position,
     ok |-> ok, err |-> err, dt |-> dt, hd2 |-> hd2]

SetPositionRollback(p, rolled_back) ==
    IF rolled_back
    THEN entity
    ELSE [entity EXCEPT ![player[p].entity_id].position = player[p].last_valid_position]

\* Variant: the rejection leaves the candidate in the entity row.
SetPositionInvalidKeepsCandidate(p, position, rolled_back) ==
    /\ entity' = IF rolled_back
                 THEN entity
                 ELSE [entity EXCEPT ![player[p].entity_id].position = position]
    /\ result' = SetPositionResult(p, position, FALSE, "InvalidSurface", -1, -1)
    /\ UNCHANGED player

SetPositionInvalid(p, position, rolled_back) ==
    /\ entity' = SetPositionRollback(p, rolled_back)
    /\ result' = SetPositionResult(p, position, FALSE, "InvalidSurface", -1, -1)
    /\ UNCHANGED player

\* Variant: the speed rejection also moves last_valid_position.
SetPositionTooFastMovesAnchor(p, position, rolled_back) ==
    /\ entity' = SetPositionRollback(p, rolled_back)
    /\ player' = IF rolled_back
                 THEN player
                 ELSE [player EXCEPT ![p].last_valid_position = position]
    /\ result' = SetPositionResult(p, position, FALSE, "SpeedViolation",
                     now - player[p].last_update_timestamp,
                     HorizontalSq(position, entity[player[p].entity_id].position))

SetPositionTooFast(p, position, rolled_back) ==
    /\ entity' = SetPositionRollback(p, rolled_back)
    /\ result' = SetPositionResult(p, position, FALSE, "SpeedViolation",
                     now - player[p].last_update_timestamp,
                     HorizontalSq(position, entity[player[p].entity_id].position))
    /\ UNCHANGED player

\* Variant: the accepted update rebuilds the entity row and loses its rotation.
SetPositionAcceptResetsRotation(p, position) ==
    /\ entity' = [entity EXCEPT ![player[p].entity_id].position = position,
                                ![player[p].entity_id].rotation = ZeroVec]
    /\ player' = [player EXCEPT ![p].last_valid_position = position,
                                ![p].last_update_timestamp = now]
    /\ result' = SetPositionResult(p, position, TRUE, "",
                     now - player[p].last_update_timestamp,
                     HorizontalSq(position, entity[player[p].entity_id].position))

\* Variant: the accepted update leaves last_valid_position as it was.
SetPositionAcceptKeepsAnchor(p, position) ==
    /\ entity' = [entity EXCEPT ![player[p].entity_id].position = position]
    /\ player' = [player EXCEPT ![p].last_update_timestamp = now]
    /\ result' = SetPositionResult(p, position, TRUE, "",
                     now - player[p].last_update_timestamp,
                     HorizontalSq(position, entity[player[p].entity_id].position))

\* Variant: the accepted update writes the candidate into every entity row.
SetPositionAcceptMovesAll(p, position) ==
    /\ entity' = [e \in DOMAIN entity |-> [entity[e] EXCEPT !.position = position]]
    /\ player' = [player EXCEPT ![p].last_valid_position = position,
                                ![p].last_update_timestamp = now]
    /\ result' = SetPositionResult(p, position, TRUE, "",
                     now - player[p].last_update_timestamp,
                     HorizontalSq(position, entity[player[p].entity_id].position))

SetPositionAccept(p, position) ==
    /\ entity' = [entity EXCEPT ![player[p].entity_id].position = position]
    /\ player' = [player EXCEPT ![p].last_valid_position = position,
                                ![p].last_update_timestamp = now]
    /\ result' = SetPositionResult(p, position, TRUE, "",
                     now - player[p].last_update_timestamp,
                     HorizontalSq(position, entity[player[p].entity_id].position))

PlayerSetPosition(p, position, rolled_back) ==
    /\ IF p \notin DOMAIN player
       THEN /\ result' = SetPositionResult(p, position, FALSE, "PlayerNotFound", -1, -1)
            /\ UNCHANGED << entity, player >>
       ELSE IF player[p].entity_id \notin DOMAIN entity
       THEN /\ result' = SetPositionResult(p, position, FALSE, "EntityNotFound", -1, -1)
            /\ UNCHANGED << entity, player >>
       ELSE IF ~is_position_valid(navmesh_config, navmesh_grid,
                                  position.x, position.y, position.z)
       THEN SetPositionInvalid(p, position, rolled_back)
       ELSE LET time_delta_micros == now - player[p].last_update_timestamp
                last_pos == entity[player[p].entity_id].position
            IN  IF /\ SpeedChecked(time_delta_micros)
                   /\ SpeedExceeds(HorizontalSq(position, last_pos), time_delta_micros,
                                   player[p].movement_speed)
                THEN SetPositionTooFast(p, position, rolled_back)
                ELSE SetPositionAccept(p, position)
    /\ accepted' = IF result'.ok THEN [accepted EXCEPT ![p] = position] ELSE accepted
    /\ UNCHANGED << now, world_spawn, entity_seq, player_seq, inventory,
                    navmesh_config, navmesh_grid, navmesh_seq, lootable_item_type,
                    lootable_spawn, admin, last_loot_ok, lazy_spawn,
                    lootable_spawn_seq >>

(***************************************************************************)
(* player.rs  player_set_rotation                                          *)
(***************************************************************************)
PlayerSetRotation(p, rotation) ==
    /\ IF p \notin DOMAIN player
       THEN /\ result' = [op |-> "player_set_rotation", sender |-> p, ok |-> FALSE]
            /\ UNCHANGED entity
       ELSE IF player[p].entity_id \notin DOMAIN entity
       THEN /\ result' = [op |-> "player_set_rotation", sender |-> p, ok |-> FALSE]
            /\ UNCHANGED entity
       ELSE /\ entity' = [entity EXCEPT ![player[p].entity_id].rotation = rotation]
            /\ result' = [op |-> "player_set_rotation", sender |-> p, ok |-> TRUE]
    /\ UNCHANGED << now, world_spawn, entity_seq, player, player_seq, inventory,
                    navmesh_config, navmesh_grid, navmesh_seq, lootable_item_type,
                    lootable_spawn, admin, accepted, last_loot_ok, lazy_spawn,
                    lootable_spawn_seq >>

(***************************************************************************)
(* player.rs  player_set_animation_state                                   *)
(***************************************************************************)
PlayerSetAnimationState(p, animation_state) ==
    /\ IF p \notin DOMAIN player
       THEN /\ result' = [op |-> "player_set_animation_state", sender |-> p, ok |-> FALSE]
            /\ UNCHANGED player
       ELSE /\ player' = [player EXCEPT ![p].animation_state = animation_state]
            /\ result' = [op |-> "player_set_animation_state", sender |-> p, ok |-> TRUE]
    /\ UNCHANGED << now, world_spawn, entity, entity_seq, player_seq, inventory,
                    navmesh_config, navmesh_grid, navmesh_seq, lootable_item_type,
                    lootable_spawn, admin, accepted, last_loot_ok, lazy_spawn,
                    lootable_spawn_seq >>

(***************************************************************************)
(* player.rs  player_update: player_set_position(position)?, then          *)
(* player_set_rotation(rotation)?, then player_set_animation_state(..)?,   *)
(* in one transaction.  The ? returns the first Err; the writes made       *)
(* before it (the rollback of the entity position) are kept or discarded   *)
(* with the transaction, as for player_set_position.  The result records   *)
(* the entity position and the time delta the position check saw.          *)
(***************************************************************************)
UpdateResult(p, position, rotation, animation_state, ok, err) ==
    [op |-> "player_update", sender |-> p, position |-> position, rotation |-> rotation,
     animation_state |-> animation_state, ok |-> ok, err |-> err,
     from |-> IF p \in DOMAIN player /\ player[p].entity_id \in DOMAIN entity
              THEN entity[player[p].entity_id].position ELSE ZeroVec,
     dt |-> IF p \in DOMAIN player THEN now - player[p].last_update_timestamp ELSE -1]

\* Variant: the Err of player_set_position is dropped and the rotation and the
\* animation state are applied all the same.
UpdateRejectedAppliesRest(p, position, rotation, animation_state, rolled_back, err) ==
    /\ entity' = IF rolled_back
                 THEN entity
                 ELSE [entity EXCEPT
                          ![player[p].entity_id].position = player[p].last_valid_position,
                          ![player[p].entity_id].rotation = rotation]
    /\ player' = IF rolled_back
                 THEN player
                 ELSE [player EXCEPT ![p].animation_state = animation_state]
    /\ result' = UpdateResult(p, position, rotation, animation_state, FALSE, err)

UpdateRejected(p, position, rotation, animation_state, rolled_back, err) ==
    /\ entity' = SetPositionRollback(p, rolled_back)
    /\ UNCHANGED player
    /\ result' = UpdateResult(p, position, rotation, animation_state, FALSE, err)

UpdateAccepted(p, position, rotation, animation_state) ==
    /\ entity' = [entity EXCEPT ![player[p].entity_id].position = position,
                                ![player[p].entity_id].rotation = rotation]
    /\ player' = [player EXCEPT ![p].last_valid_position = position,
                                ![p].last_update_timestamp = now,
                                ![p].animation_state = animation_state]
    /\ result' = UpdateResult(p, position, rotation, animation_state, TRUE, "")

PlayerUpdate(p, position, rotation, animation_state, rolled_back) ==
    /\ IF p \notin DOMAIN player
       THEN /\ result' = UpdateResult(p, position, rotation, animation_state, FALSE,
                                      "PlayerNotFound")
            /\ UNCHANGED << entity, player >>
       ELSE IF player[p].entity_id \notin DOMAIN entity
       THEN /\ result' = UpdateResult(p, position, rotation, animation_state, FALSE,
                                      "EntityNotFound")
            /\ UNCHANGED << entity, player >>
       ELSE IF ~is_position_valid(navmesh_config, navmesh_grid,
                                  position.x, position.y, position.z)
       THEN UpdateRejected(p, position, rotation, animation_state, rolled_back,
                           "InvalidSurface")
       ELSE LET time_delta_micros == now - player[p].last_update_timestamp
                last_pos == entity[player[p].entity_id].position
            IN  IF /\ SpeedChecked(time_delta_micros)
                   /\ SpeedExceeds(HorizontalSq(position, last_pos), time_delta_micros,
                                   player[p].movement_speed)
                THEN UpdateRejected(p, position, rotation, animation_state, rolled_back,
                                    "SpeedViolation")
                ELSE UpdateAccepted(p, position, rotation, animation_state)
    /\ accepted' = IF result'.ok THEN [accepted EXCEPT ![p] = position] ELSE accepted
    /\ UNCHANGED << now, world_spawn, entity_seq, player_seq, inventory,
                    navmesh_config, navmesh_grid, navmesh_seq, lootable_item_type,
                    lootable_spawn, admin, last_loot_ok, lazy_spawn,
                    lootable_spawn_seq >>

(***************************************************************************)
(* inventory.rs  inventory_add_item_internal: the inventory table after    *)
(* the grant.  An identity without an inventory is skipped and the call    *)
(* still returns Ok.  Quantities are u32; they stay far below 2^32 within  *)
(* the bounds of the model.                                                *)
(***************************************************************************)
ItemIndex(items, item_id) ==
    IF \E i \in 1..Len(items) : items[i].id = item_id
    THEN CHOOSE i \in 1..Len(items) :
             /\ items[i].id = item_id
             /\ \A j \in 1..(i - 1) : items[j].id # item_id
    ELSE 0

\* Variant: an existing entry is overwritten by the granted quantity.
inventory_add_item_overwrite(inv, identity, item_id, quantity) ==
    IF identity \notin DOMAIN inv
    THEN inv
    ELSE LET items == inv[identity].items
             i == ItemIndex(items, item_id)
         IN  IF i # 0
             THEN [inv EXCEPT ![identity].items[i].quantity = quantity]
             ELSE [inv EXCEPT ![identity].items =
                       Append(@, [id |-> item_id, quantity |-> quantity])]

inventory_add_item_internal(inv, identity, item_id, quantity) ==
    IF identity \notin DOMAIN inv
    THEN inv
    ELSE LET items == inv[identity].items
             i == ItemIndex(items, item_id)
         IN  IF i # 0
             THEN [inv EXCEPT ![identity].items[i].quantity = @ + quantity]
             ELSE [inv EXCEPT ![identity].items =
                       Append(@, [id |-> item_id, quantity |-> quantity])]

(***************************************************************************)
(* lootable.rs  lootable_loot: the checks, in the order of the code.  The   *)
(* result records what the call computed (time_since_looted as elapsed,    *)
(* the remaining cooldown) and the time of the spawn's previous successful *)
(* loot; last_loot_ok records the time of every call that returned Ok.     *)
(***************************************************************************)
\* Variant: the range boundary is exclusive (dist >= loot_distance rejects).
InRangeExclusive(actor_position, spawn, item_type) ==
    ~(DistanceSq(actor_position, spawn.position)
          >= item_type.loot_distance * item_type.loot_distance)

InRange(actor_position, spawn, item_type) ==
    ~(DistanceSq(actor_position, spawn.position)
          > item_type.loot_distance * item_type.loot_distance)

\* Variant: the cooldown boundary is exclusive (<= respawn_time_us rejects).
OnCooldownInclusive(spawn, item_type, current_time) ==
    /\ spawn.is_looted
    /\ current_time - spawn.looted_at_us <= item_type.respawn_time_us

OnCooldown(spawn, item_type, current_time) ==
    /\ spawn.is_looted
    /\ current_time - spawn.looted_at_us < item_type.respawn_time_us

LootOutcomeOn(spawns, p, spawn_id) ==
    IF p \notin DOMAIN player THEN "PlayerNotFound"
    ELSE IF player[p].entity_id \notin DOMAIN entity THEN "EntityNotFound"
    ELSE IF spawn_id \notin DOMAIN spawns THEN "UnknownSpawn"
    ELSE IF spawns[spawn_id].type_id \notin DOMAIN lootable_item_type
    THEN "TypeNotFound"
    ELSE LET spawn == spawns[spawn_id]
             item_type == lootable_item_type[spawn.type_id]
         IN  IF ~InRange(entity[player[p].entity_id].position, spawn, item_type)
             THEN "OutOfRange"
             ELSE IF OnCooldown(spawn, item_type, now) THEN "OnCooldown"
             ELSE "Ok"

LootOutcome(p, spawn_id) == LootOutcomeOn(lootable_spawn, p, spawn_id)

\* lootable.rs:250-253  the spawn row after a call with this outcome.
MarkLooted(spawns, spawn_id, outcome) ==
    IF outcome = "Ok"
    THEN [spawns EXCEPT ![spawn_id].is_looted = TRUE, ![spawn_id].looted_at_us = now]
    ELSE spawns

\* Variant: the remaining time is taken from the clock, not from looted_at_us.
LootResultRemainingFromNow(p, spawn_id, outcome) ==
    [op |-> "lootable_loot", sender |-> p, spawn_id |-> spawn_id,
     ok |-> (outcome = "Ok"), err |-> outcome,
     remaining |-> IF outcome = "OnCooldown"
                   THEN lootable_item_type[lootable_spawn[spawn_id].type_id].respawn_time_us
                            - now
                   ELSE -1,
     elapsed |-> IF outcome \in {"Ok", "OnCooldown"} /\ lootable_spawn[spawn_id].is_looted
                 THEN now - lootable_spawn[spawn_id].looted_at_us
                 ELSE -1,
     previous |-> IF spawn_id \in DOMAIN last_loot_ok THEN last_loot_ok[spawn_id] ELSE -1]

LootResult(p, spawn_id, outcome) ==
    [op |-> "lootable_loot", sender |-> p, spawn_id |-> spawn_id,
     ok |-> (outcome = "Ok"), err |-> outcome,
     remaining |-> IF outcome = "OnCooldown"
                   THEN lootable_item_type[lootable_spawn[spawn_id].type_id].respawn_time_us
                            - (now - lootable_spawn[spawn_id].looted_at_us)
                   ELSE -1,
     elapsed |-> IF outcome \in {"Ok", "OnCooldown"} /\ lootable_spawn[spawn_id].is_looted
                 THEN now - lootable_spawn[spawn_id].looted_at_us
                 ELSE -1,
     previous |-> IF spawn_id \in DOMAIN last_loot_ok THEN last_loot_ok[spawn_id] ELSE -1]

\* Variant: the spawn is stamped before the cooldown check, so a call rejected
\* as on cooldown restarts the cooldown.
LootableLootStampsFirst(p, spawn_id) ==
    LET outcome == LootOutcome(p, spawn_id)
    IN  /\ result' = LootResult(p, spawn_id, outcome)
        /\ IF outcome = "Ok"
           THEN LET item_type == lootable_item_type[lootable_spawn[spawn_id].type_id]
                IN  /\ lootable_spawn' = [lootable_spawn EXCEPT
                                              ![spawn_id].is_looted = TRUE,
                                              ![spawn_id].looted_at_us = now]
                    /\ inventory' = inventory_add_item_internal(inventory, p,
                                        lootable_spawn[spawn_id].type_id, item_type.quantity)
           ELSE /\ lootable_spawn' = IF outcome = "OnCooldown"
                                      THEN [lootable_spawn EXCEPT ![spawn_id].looted_at_us = now]
                                      ELSE lootable_spawn
                /\ UNCHANGED inventory
        /\ last_loot_ok' = IF result'.ok THEN [last_loot_ok EXCEPT ![spawn_id] = now]
                           ELSE last_loot_ok
        /\ lazy_spawn' = MarkLooted(lazy_spawn, spawn_id,
                                     LootOutcomeOn(lazy_spawn, p, spawn_id))
        /\ UNCHANGED << now, world_spawn, entity, entity_seq, player, player_seq,
                        navmesh_config, navmesh_grid, navmesh_seq, lootable_item_type,
                        admin, accepted,
                    lootable_spawn_seq >>

\* Variant: a successful loot sets is_looted and leaves looted_at_us as it was.
LootableLootKeepsStamp(p, spawn_id) ==
    LET outcome == LootOutcome(p, spawn_id)
    IN  /\ result' = LootResult(p, spawn_id, outcome)
        /\ IF outcome = "Ok"
           THEN LET item_type == lootable_item_type[lootable_spawn[spawn_id].type_id]
                IN  /\ lootable_spawn' = [lootable_spawn EXCEPT ![spawn_id].is_looted = TRUE]
                    /\ inventory' = inventory_add_item_internal(inventory, p,
                                        lootable_spawn[spawn_id].type_id, item_type.quantity)
           ELSE UNCHANGED << lootable_spawn, inventory >>
        /\ last_loot_ok' = IF result'.ok THEN [last_loot_ok EXCEPT ![spawn_id] = now]
                           ELSE last_loot_ok
        /\ lazy_spawn' = MarkLooted(lazy_spawn, spawn_id,
                                     LootOutcomeOn(lazy_spawn, p, spawn_id))
        /\ UNCHANGED << now, world_spawn, entity, entity_seq, player, player_seq,
                        navmesh_config, navmesh_grid, navmesh_seq, lootable_item_type,
                        admin, accepted,
                    lootable_spawn_seq >>

LootableLoot(p, spawn_id) ==
    LET outcome == LootOutcome(p, spawn_id)
    IN  /\ result' = LootResult(p, spawn_id, outcome)
        /\ IF outcome = "Ok"
           THEN LET item_type == lootable_item_type[lootable_spawn[spawn_id].type_id]
                IN  /\ lootable_spawn' = [lootable_spawn EXCEPT
                                              ![spawn_id].is_looted = TRUE,
                                              ![spawn_id].looted_at_us = now]
                    /\ inventory' = inventory_add_item_internal(inventory, p,
                                        lootable_spawn[spawn_id].type_id, item_type.quantity)
           ELSE UNCHANGED << lootable_spawn, inventory >>
        /\ last_loot_ok' = IF result'.ok THEN [last_loot_ok EXCEPT ![spawn_id] = now]
                           ELSE last_loot_ok
        /\ lazy_spawn' = MarkLooted(lazy_spawn, spawn_id,
                                     LootOutcomeOn(lazy_spawn, p, spawn_id))
        /\ UNCHANGED << now, world_spawn, entity, entity_seq, player, player_seq,
                        navmesh_config, navmesh_grid, navmesh_seq, lootable_item_type,
                        admin, accepted,
                    lootable_spawn_seq >>

(***************************************************************************)
(* lootable.rs  lootable_check_respawns                                    *)
(* The reducer returns Result<(), String>: Ok(()) carries no value, so the *)
(* set of values reported to the caller is empty; the resets are written   *)
(* to the server log only.                                                 *)
(***************************************************************************)
\* Variant: the sweep resets every looted spawn, whatever the elapsed time.
RespawnDueAlways(spawn, current_time) ==
    /\ spawn.is_looted
    /\ spawn.type_id \in DOMAIN lootable_item_type

\* Variant: the sweep resets a spawn only after more than the respawn time.
RespawnDueStrict(spawn, current_time) ==
    /\ spawn.is_looted
    /\ spawn.type_id \in DOMAIN lootable_item_type
    /\ current_time - spawn.looted_at_us
           > lootable_item_type[spawn.type_id].respawn_time_us

\* Variant: the sweep resets a spawn after half its respawn time.
RespawnDueHalf(spawn, current_time) ==
    /\ spawn.is_looted
    /\ spawn.type_id \in DOMAIN lootable_item_type
    /\ 2 * (current_time - spawn.looted_at_us)
           >= lootable_item_type[spawn.type_id].respawn_time_us

RespawnDue(spawn, current_time) ==
    /\ spawn.is_looted
    /\ spawn.type_id \in DOMAIN lootable_item_type
    /\ current_time - spawn.looted_at_us
           >= lootable_item_type[spawn.type_id].respawn_time_us

\* Variant: when some spawn is due, the sweep resets every looted spawn.
LootableCheckRespawnsResetsAll ==
    /\ lootable_spawn' =
           [id \in DOMAIN lootable_spawn |->
               IF \E due \in DOMAIN lootable_spawn : RespawnDue(lootable_spawn[due], now)
               THEN [lootable_spawn[id] EXCEPT !.is_looted = FALSE, !.looted_at_us = 0]
               ELSE lootable_spawn[id]]
    /\ result' = [op |-> "lootable_check_respawns", ok |-> TRUE,
                  respawned |-> {id \in DOMAIN lootable_spawn :
                                     RespawnDue(lootable_spawn[id], now)},
                  repeated |-> result.op = "lootable_check_respawns",
                  reported |-> {}]
    /\ UNCHANGED << now, world_spawn, entity, entity_seq, player, player_seq, inventory,
                    navmesh_config, navmesh_grid, navmesh_seq, lootable_item_type,
                    admin, accepted, last_loot_ok, lazy_spawn,
                    lootable_spawn_seq >>

LootableCheckRespawns ==
    /\ lootable_spawn' =
           [id \in DOMAIN lootable_spawn |->
               IF RespawnDue(lootable_spawn[id], now)
               THEN [lootable_spawn[id] EXCEPT !.is_looted = FALSE, !.looted_at_us = 0]
               ELSE lootable_spawn[id]]
    /\ result' = [op |-> "lootable_check_respawns", ok |-> TRUE,
                  respawned |-> {id \in DOMAIN lootable_spawn :
                                     RespawnDue(lootable_spawn[id], now)},
                  repeated |-> result.op = "lootable_check_respawns",
                  reported |-> {}]
    /\ UNCHANGED << now, world_spawn, entity, entity_seq, player, player_seq, inventory,
                    navmesh_config, navmesh_grid, navmesh_seq, lootable_item_type,
                    admin, accepted, last_loot_ok, lazy_spawn,
                    lootable_spawn_seq >>

(***************************************************************************)
(* lootable.rs  lootable_delete_spawn, lootable_delete_all_spawns_of_type  *)
(***************************************************************************)
LootableDeleteSpawn(p, spawn_id) ==
    /\ IF spawn_id \notin DOMAIN lootable_spawn
       THEN /\ result' = [op |-> "lootable_delete_spawn", sender |-> p, ok |-> FALSE]
            /\ UNCHANGED lootable_spawn
       ELSE /\ lootable_spawn' = Remove(lootable_spawn, {spawn_id})
            /\ result' = [op |-> "lootable_delete_spawn", sender |-> p, ok |-> TRUE]
    /\ lazy_spawn' = Remove(lazy_spawn, {spawn_id} \cap DOMAIN lazy_spawn)
    /\ UNCHANGED << now, world_spawn, entity, entity_seq, player, player_seq, inventory,
                    navmesh_config, navmesh_grid, navmesh_seq, lootable_item_type,
                    admin, accepted, last_loot_ok,
                    lootable_spawn_seq >>

LootableDeleteAllSpawnsOfType(p, type_id) ==
    /\ lootable_spawn' = Remove(lootable_spawn,
           {id \in DOMAIN lootable_spawn : lootable_spawn[id].type_id = type_id})
    /\ result' = [op |-> "lootable_delete_all_spawns_of_type", sender |-> p, ok |-> TRUE]
    /\ lazy_spawn' = Remove(lazy_spawn,
           {id \in DOMAIN lazy_spawn : lazy_spawn[id].type_id = type_id})
    /\ UNCHANGED << now, world_spawn, entity, entity_seq, player, player_seq, inventory,
                    navmesh_config, navmesh_grid, navmesh_seq, lootable_item_type,
                    admin, accepted, last_loot_ok,
                    lootable_spawn_seq >>

(***************************************************************************)
(* admin.rs  is_admin, require_admin, admin_add, admin_remove              *)
(***************************************************************************)
is_admin(identity) == identity \in admin

\* Variant: while the admin table is empty every caller passes.
require_admin_bootstrap(sender) == admin = {} \/ is_admin(sender)

require_admin(sender) == is_admin(sender)

Unauthorized(op, sender) == [op |-> op, sender |-> sender, ok |-> FALSE, err |-> "Unauthorized"]

AdminAdd(p, identity) ==
    /\ IF ~require_admin(p)
       THEN /\ result' = Unauthorized("admin_add", p)
            /\ UNCHANGED admin
       ELSE IF identity \in admin
       THEN /\ result' = [op |-> "admin_add", sender |-> p, ok |-> FALSE,
                           err |-> "AlreadyAdmin"]
            /\ UNCHANGED admin
       ELSE /\ admin' = admin \cup {identity}
            /\ result' = [op |-> "admin_add", sender |-> p, ok |-> TRUE, err |-> ""]
    /\ UNCHANGED << now, world_spawn, entity, entity_seq, player, player_seq, inventory,
                    navmesh_config, navmesh_grid, navmesh_seq, lootable_item_type,
                    lootable_spawn, accepted, last_loot_ok, lazy_spawn,
                    lootable_spawn_seq >>

AdminRemove(p, identity) ==
    /\ IF ~require_admin(p)
       THEN /\ result' = Unauthorized("admin_remove", p)
            /\ UNCHANGED admin
       ELSE IF identity \notin admin
       THEN /\ result' = [op |-> "admin_remove", sender |-> p, ok |-> FALSE,
                           err |-> "NotAdmin"]
            /\ UNCHANGED admin
       ELSE /\ admin' = admin \ {identity}
            /\ result' = [op |-> "admin_remove", sender |-> p, ok |-> TRUE, err |-> ""]
    /\ UNCHANGED << now, world_spawn, entity, entity_seq, player, player_seq, inventory,
                    navmesh_config, navmesh_grid, navmesh_seq, lootable_item_type,
                    lootable_spawn, accepted, last_loot_ok, lazy_spawn,
                    lootable_spawn_seq >>

(***************************************************************************)
(* lootable.rs  lootable_create_type, lootable_create_spawn (admin only).  *)
(* The insert of a type_id already in the table violates the primary key:  *)
(* the reducer panics and the transaction is aborted.                      *)
(***************************************************************************)
LootableCreateType(p, type_id, quantity, respawn_time_us, loot_distance) ==
    /\ IF ~require_admin(p)
       THEN /\ result' = Unauthorized("lootable_create_type", p)
            /\ UNCHANGED lootable_item_type
       ELSE IF type_id \in DOMAIN lootable_item_type
       THEN /\ result' = [op |-> "lootable_create_type", sender |-> p, ok |-> FALSE,
                           err |-> "Panic"]
            /\ UNCHANGED lootable_item_type
       ELSE /\ lootable_item_type' = Put(lootable_item_type, type_id,
                    [quantity |-> quantity, respawn_time_us |-> respawn_time_us,
                     loot_distance |-> loot_distance])
            /\ result' = [op |-> "lootable_create_type", sender |-> p, ok |-> TRUE,
                          err |-> ""]
    /\ UNCHANGED << now, world_spawn, entity, entity_seq, player, player_seq, inventory,
                    navmesh_config, navmesh_grid, navmesh_seq, lootable_spawn, admin,
                    accepted, last_loot_ok, lazy_spawn, lootable_spawn_seq >>

LootableCreateSpawn(p, type_id, position, rotation) ==
    /\ IF ~require_admin(p)
       THEN /\ result' = Unauthorized("lootable_create_spawn", p)
            /\ UNCHANGED << lootable_spawn, lootable_spawn_seq, last_loot_ok, lazy_spawn >>
       ELSE IF type_id \notin DOMAIN lootable_item_type
       THEN /\ result' = [op |-> "lootable_create_spawn", sender |-> p, ok |-> FALSE,
                           err |-> "TypeNotFound"]
            /\ UNCHANGED << lootable_spawn, lootable_spawn_seq, last_loot_ok, lazy_spawn >>
       ELSE LET spawn_id == lootable_spawn_seq + 1
            IN  /\ lootable_spawn' = Put(lootable_spawn, spawn_id,
                                         Spawn(type_id, position, rotation))
                /\ lootable_spawn_seq' = spawn_id
                /\ last_loot_ok' = Put(last_loot_ok, spawn_id, -1)
                /\ lazy_spawn' = Put(lazy_spawn, spawn_id, Spawn(type_id, position, rotation))
                /\ result' = [op |-> "lootable_create_spawn", sender |-> p, ok |-> TRUE,
                              err |-> ""]
    /\ UNCHANGED << now, world_spawn, entity, entity_seq, player, player_seq, inventory,
                    navmesh_config, navmesh_grid, navmesh_seq, lootable_item_type, admin,
                    accepted >>

(***************************************************************************)
(* inventory.rs  inventory_remove_item_internal, inventory_add_item,       *)
(* inventory_remove_item (admin only).  existing_item.quantity -= quantity *)
(* on u32: a quantity larger than the entry's panics in a build with       *)
(* overflow checks (wrapped = FALSE, nothing is written) and wraps in one  *)
(* without; the wrapped value 2^32 + (existing - quantity) is kept here as *)
(* the negative difference.                                                *)
(***************************************************************************)
inventory_remove_item_internal(inv, identity, item_id, quantity, wrapped) ==
    IF identity \notin DOMAIN inv
    THEN inv
    ELSE LET items == inv[identity].items
             i == ItemIndex(items, item_id)
         IN  IF i = 0 THEN inv
             ELSE IF items[i].quantity < quantity /\ ~wrapped THEN inv
             ELSE IF items[i].quantity = quantity
             THEN [inv EXCEPT ![identity].items =
                       SubSeq(items, 1, i - 1) \o SubSeq(items, i + 1, Len(items))]
             ELSE [inv EXCEPT ![identity].items[i].quantity = @ - quantity]

InventoryAddItem(p, identity, item_id, quantity) ==
    /\ IF ~require_admin(p)
       THEN /\ result' = Unauthorized("inventory_add_item", p)
            /\ UNCHANGED inventory
       ELSE /\ inventory' = inventory_add_item_internal(inventory, identity, item_id, quantity)
            /\ result' = [op |-> "inventory_add_item", sender |-> p, ok |-> TRUE, err |-> ""]
    /\ UNCHANGED << now, world_spawn, entity, entity_seq, player, player_seq,
                    navmesh_config, navmesh_grid, navmesh_seq, lootable_item_type,
                    lootable_spawn, admin, accepted, last_loot_ok, lazy_spawn,
                    lootable_spawn_seq >>

InventoryRemoveItem(p, identity, item_id, quantity, wrapped) ==
    /\ IF ~require_admin(p)
       THEN /\ result' = Unauthorized("inventory_remove_item", p)
            /\ UNCHANGED inventory
       ELSE LET panics == /\ identity \in DOMAIN inventory
                          /\ ItemIndex(inventory[identity].items, item_id) # 0
                          /\ inventory[identity].items[
                                 ItemIndex(inventory[identity].items, item_id)].quantity
                                 < quantity
                          /\ ~wrapped
            IN  /\ inventory' = inventory_remove_item_internal(inventory, identity, item_id,
                                                               quantity, wrapped)
                /\ result' = [op |-> "inventory_remove_item", sender |-> p,
                              ok |-> ~panics, err |-> IF panics THEN "Panic" ELSE ""]
    /\ UNCHANGED << now, world_spawn, entity, entity_seq, player, player_seq,
                    navmesh_config, navmesh_grid, navmesh_seq, lootable_item_type,
                    lootable_spawn, admin, accepted, last_loot_ok, lazy_spawn,
                    lootable_spawn_seq >>

(***************************************************************************)
(* The movement specification: connections, movement, navmesh provisioning *)
(* and the clock, one tick (25 ms) at a time.                              *)
(***************************************************************************)
SpawnPoint == Vec3(0, 208, -936)

MovePositions ==
    { SpawnPoint, Vec3(3, 208, -936), Vec3(4, 208, -936), Vec3(3, 208, -935) }

NavPoints ==
    { << 0, 208, -936, 0, 0 >> }

NavConfigs == { << 2, 1, 0, -936 >> }

Next ==
    \/ Tick(1, MaxTime)
    \/ \E p \in Identities : PlayerConnected(p)
    \/ \E p \in Identities, position \in MovePositions, rolled_back \in BOOLEAN :
           PlayerSetPosition(p, position, rolled_back)
    \/ \E pt \in NavPoints : NavmeshUploadPoint(pt[1], pt[2], pt[3], pt[4], pt[5])
    \/ \E c \in NavConfigs : NavmeshSetConfig(c[1], c[2], c[3], c[4])
    \/ NavmeshClearGrid

Spec == Init /\ [][Next]_vars

(***************************************************************************)
(* The loot specification: connections, movement to the lootable spawns,   *)
(* looting, the respawn sweep, and the clock in steps of half a respawn    *)
(* time (15 s).  NearBranch is exactly loot_distance (1.5 m) from the      *)
(* Branch spawn, FarBranch is beyond it, AtRock is the Rock spawn's own    *)
(* position.  p1 roams over the three positions; p2 is a second looter     *)
(* that goes to the Branch spawn.                                          *)
(***************************************************************************)
NearBranch == Vec3(-877, -117, 1016)

FarBranch == Vec3(-877, -117, 1015)

AtRock == Vec3(-893, -119, 1018)

LootMoves ==
    { << "p1", NearBranch >>, << "p1", FarBranch >>, << "p1", AtRock >>,
      << "p2", NearBranch >> }

SpawnIds == 1..3

NextLoot ==
    \/ Tick(RESPAWN_TIME \div 2, (RESPAWN_TIME \div 2) * MaxLootSteps)
    \/ \E p \in Identities : PlayerConnected(p)
    \/ \E p \in Identities : InventoryCreate(p)
    \/ \E m \in LootMoves, rolled_back \in BOOLEAN :
           PlayerSetPosition(m[1], m[2], rolled_back)
    \/ \E p \in Identities, spawn_id \in SpawnIds : LootableLoot(p, spawn_id)
    \/ LootableCheckRespawns

SpecLoot == Init /\ [][NextLoot]_vars

(***************************************************************************)
(* The record specification: the operations that write the other fields of *)
(* a player's rows (online, rotation) next to movement.                    *)
(***************************************************************************)
RecordPositions == { SpawnPoint, Vec3(3, 208, -936) }

Rotations == { Vec3(0, 90, 0) }

NextRecord ==
    \/ Tick(1, MaxRecordTime)
    \/ \E p \in Identities : PlayerConnected(p)
    \/ \E p \in Identities : Disconnect(p)
    \/ \E p \in Identities, rotation \in Rotations : PlayerSetRotation(p, rotation)
    \/ \E p \in Identities, position \in RecordPositions, rolled_back \in BOOLEAN :
           PlayerSetPosition(p, position, rolled_back)

SpecRecord == Init /\ [][NextRecord]_vars

(***************************************************************************)
(* The navmesh specification: one identity moves over a navmesh that is    *)
(* uploaded, configured, reconfigured and cleared.  The clock stands still *)
(* (no speed check applies at a time delta of 0).  The uploads carry the   *)
(* cell of the point under the first configuration, and a cell that is not *)
(* the point's; the second configuration shifts the origin by two cells.   *)
(***************************************************************************)
NavUploads ==
    { << 0, 208, -936, 0, 0 >>, << 1, 208, -936, 0, 0 >>, << 0, 208, -936, 5, 5 >> }

NavConfigChoices == { << 2, 1, 0, -936 >>, << 2, 1, -4, -936 >> }

NavCandidates ==
    { Vec3(0, 208, -936), Vec3(3, 208, -936), Vec3(-3, 208, -936), Vec3(4, 208, -936),
      Vec3(0, 209, -936), Vec3(0, 210, -936), Vec3(6, 208, -936) }

NextNav ==
    \/ PlayerConnected("p1")
    \/ \E position \in NavCandidates, rolled_back \in BOOLEAN :
           PlayerSetPosition("p1", position, rolled_back)
    \/ \E pt \in NavUploads : NavmeshUploadPoint(pt[1], pt[2], pt[3], pt[4], pt[5])
    \/ \E c \in NavConfigChoices : NavmeshSetConfig(c[1], c[2], c[3], c[4])
    \/ NavmeshClearGrid

SpecNav == Init /\ [][NextNav]_vars

(***************************************************************************)
(* The administration specification: two identities, neither an admin      *)
(* after init, call the admin reducers, the admin-only reducers and the    *)
(* spawn deletions.                                                        *)
(***************************************************************************)
TypeIds == 0..3

NextAdmin ==
    \/ \E p \in Identities : PlayerConnected(p)
    \/ \E p \in Identities, identity \in Identities : AdminAdd(p, identity)
    \/ \E p \in Identities, identity \in Identities : AdminRemove(p, identity)
    \/ \E p \in Identities, type_id \in TypeIds :
           LootableCreateType(p, type_id, 5, RESPAWN_TIME, 6)
    \/ \E p \in Identities, type_id \in TypeIds :
           LootableCreateSpawn(p, type_id, AtRock, ZeroVec)
    \/ \E p \in Identities, identity \in Identities :
           InventoryAddItem(p, identity, 0, 5)
    \/ \E p \in Identities, identity \in Identities, wrapped \in BOOLEAN :
           InventoryRemoveItem(p, identity, 0, 10, wrapped)
    \/ \E p \in Identities, spawn_id \in SpawnIds : LootableDeleteSpawn(p, spawn_id)
    \/ \E p \in Identities, type_id \in TypeIds : LootableDeleteAllSpawnsOfType(p, type_id)

SpecAdmin == Init /\ [][NextAdmin]_vars

(***************************************************************************)
(* The update specification: one identity moves by player_set_position and *)
(* by player_update, horizontally and vertically, before and after the     *)
(* navmesh is configured, one tick (25 ms) at a time.  With the navmesh    *)
(* loaded the candidates 192 above the point and 4 beside it are invalid.  *)
(***************************************************************************)
UpdatePositions ==
    { SpawnPoint, Vec3(3, 208, -936), Vec3(0, 209, -936), Vec3(0, 400, -936),
      Vec3(4, 208, -936) }

UpdateRotations == { Vec3(0, 90, 0), Vec3(0, 180, 0) }

AnimationStates == 1..2

NextUpdate ==
    \/ Tick(1, MaxRecordTime)
    \/ PlayerConnected("p1")
    \/ \E position \in UpdatePositions, rolled_back \in BOOLEAN :
           PlayerSetPosition("p1", position, rolled_back)
    \/ \E position \in UpdatePositions, rotation \in UpdateRotations,
          animation_state \in AnimationStates, rolled_back \in BOOLEAN :
           PlayerUpdate("p1", position, rotation, animation_state, rolled_back)
    \/ \E animation_state \in AnimationStates : PlayerSetAnimationState("p1", animation_state)
    \/ \E pt \in NavPoints : NavmeshUploadPoint(pt[1], pt[2], pt[3], pt[4], pt[5])
    \/ \E c \in NavConfigs : NavmeshSetConfig(c[1], c[2], c[3], c[4])

SpecUpdate == Init /\ [][NextUpdate]_vars

(***************************************************************************)
(* Properties of the movement arbiter.                                     *)
(*                                                                         *)
(* A step is a call of player_set_position by p with candidate c when the  *)
(* result of the step names them.  The speed budget of the properties is   *)
(* written out on its own:  d = movement_speed * 1.25 * dt  reads, on the  *)
(* squares and in model units,  hd2 * (40 * 4)^2 = (speed * 5 * dt)^2.     *)
(***************************************************************************)
SetPositionCall(p, c) ==
    /\ result'.op = "player_set_position"
    /\ result'.sender = p
    /\ result'.position = c

Walkable(c) == is_position_valid(navmesh_config, navmesh_grid, c.x, c.y, c.z)

BudgetSq(speed, dt) == (speed * 5 * dt) * (speed * 5 * dt)

DisplacementSq(hd2) == hd2 * (40 * 4) * (40 * 4)

EntityPosition(p) == entity[player[p].entity_id].position

RolledBack(p) ==
    /\ entity'[player[p].entity_id].position = player[p].last_valid_position
    /\ player'[p].last_valid_position = player[p].last_valid_position
    /\ player'[p].last_update_timestamp = player[p].last_update_timestamp

Committed(p, c) ==
    /\ entity'[player[p].entity_id].position = c
    /\ player'[p].last_valid_position = c
    /\ player'[p].last_update_timestamp = now

\* C1: every player's last_valid_position is the candidate of its most recent
\* accepted player_set_position (the spawn position given by player_create when
\* none was accepted), and a rejected call leaves last_valid_position as it was.
C1_LastValidIsLastAccepted ==
    [][ /\ \A p \in DOMAIN player' : player'[p].last_valid_position = accepted'[p]
        /\ \A p \in DOMAIN player, c \in MovePositions :
               (SetPositionCall(p, c) /\ ~result'.ok)
                   => player'[p].last_valid_position = player[p].last_valid_position
      ]_vars

C1_Witness ==
    /\ result.op = "player_set_position"
    /\ result.err = "SpeedViolation"
    /\ result.sender \in DOMAIN player
    /\ player[result.sender].last_valid_position # SpawnPoint
    /\ player[result.sender].last_valid_position # result.position

\* C2: when the navmesh index rejects the candidate, player_set_position returns
\* an error, the live entity position equals last_valid_position afterwards, and
\* last_valid_position and last_update_timestamp are unchanged.
C2_InvalidSurfaceRollsBack ==
    [][ \A p \in DOMAIN player, c \in MovePositions :
            (SetPositionCall(p, c) /\ ~Walkable(c))
                => /\ ~result'.ok
                   /\ entity'[player'[p].entity_id].position = player'[p].last_valid_position
                   /\ RolledBack(p)
      ]_vars

C2_Witness ==
    /\ result.op = "player_set_position"
    /\ result.err = "InvalidSurface"
    /\ player[result.sender].last_valid_position # SpawnPoint
    /\ player[result.sender].last_update_timestamp < now

C4_Original ==
    [][ \A p \in DOMAIN player, c \in MovePositions :
            LET dt == now - player[p].last_update_timestamp
                hd2 == HorizontalSq(c, player[p].last_valid_position)
            IN  (SetPositionCall(p, c) /\ result'.ok)
                    => /\ Walkable(c)
                       /\ DisplacementSq(hd2) <= BudgetSq(player[p].movement_speed, dt)
      ]_vars

\* C4 amended: every accepted player_set_position has a walkable candidate, and
\* when more than 50 ms have passed since the previously accepted update its
\* horizontal displacement is at most movement_speed * 1.25 * that time.
C4_AcceptedIsVerified ==
    [][ \A p \in DOMAIN player, c \in MovePositions :
            LET dt == now - player[p].last_update_timestamp
                hd2 == HorizontalSq(c, player[p].last_valid_position)
            IN  (SetPositionCall(p, c) /\ result'.ok)
                    => /\ Walkable(c)
                       /\ dt > MIN_TIME_DELTA
                              => DisplacementSq(hd2) <= BudgetSq(player[p].movement_speed, dt)
      ]_vars

C4_Witness ==
    /\ result.op = "player_set_position"
    /\ result.ok
    /\ 0 \in DOMAIN navmesh_config
    /\ result.dt > MIN_TIME_DELTA
    /\ result.hd2 > 0
    /\ DisplacementSq(result.hd2) < BudgetSq(player[result.sender].movement_speed, result.dt)

\* C5: a call on a walkable candidate at most 50 ms after last_update_timestamp
\* (exactly 50 ms included) is accepted whatever the displacement, and is
\* committed: last_valid_position is the candidate and last_update_timestamp is
\* the call's timestamp.
C5_SubIntervalAccepted ==
    [][ \A p \in DOMAIN player, c \in MovePositions :
            (SetPositionCall(p, c) /\ Walkable(c)
                 /\ now - player[p].last_update_timestamp <= MIN_TIME_DELTA)
                => (result'.ok /\ Committed(p, c))
      ]_vars

C5_Witness ==
    /\ result.op = "player_set_position"
    /\ result.ok
    /\ result.dt = MIN_TIME_DELTA
    /\ DisplacementSq(result.hd2) > BudgetSq(player[result.sender].movement_speed, result.dt)

\* C6: when player_set_position succeeds, the entity position and
\* last_valid_position are the candidate and last_update_timestamp is the call's
\* timestamp; every other field of the player's row and of the entity's row, and
\* every other row of both tables, is unchanged.
C6_SuccessWritesOnlyPosition ==
    [][ \A p \in DOMAIN player, c \in RecordPositions :
            (SetPositionCall(p, c) /\ result'.ok)
                => /\ Committed(p, c)
                   /\ player' = [player EXCEPT ![p].last_valid_position = c,
                                               ![p].last_update_timestamp = now]
                   /\ entity' = [entity EXCEPT ![player[p].entity_id].position = c]
      ]_vars

C6_Witness ==
    /\ result.op = "player_set_position"
    /\ result.ok
    /\ result.position # SpawnPoint
    /\ ~player[result.sender].online
    /\ entity[player[result.sender].entity_id].rotation # ZeroVec
    /\ player[result.sender].last_update_timestamp = now
    /\ now > 0

(***************************************************************************)
(* Properties of the respawn ledger.                                       *)
(*                                                                         *)
(* A step is a call of lootable_loot by p on spawn_id when the result of   *)
(* the step names them.  CanLoot: the caller has a player row and an       *)
(* entity.  Near: the caller's entity is within loot_distance of the       *)
(* spawn, boundary included.                                               *)
(***************************************************************************)
LootCall(p, spawn_id) ==
    /\ result'.op = "lootable_loot"
    /\ result'.sender = p
    /\ result'.spawn_id = spawn_id

CanLoot(p) == p \in DOMAIN player /\ player[p].entity_id \in DOMAIN entity

TypeOf(spawn_id) == lootable_item_type[lootable_spawn[spawn_id].type_id]

Near(p, spawn_id) ==
    DistanceSq(EntityPosition(p), lootable_spawn[spawn_id].position)
        <= TypeOf(spawn_id).loot_distance * TypeOf(spawn_id).loot_distance

MarkedLooted(spawn_id) ==
    /\ lootable_spawn'[spawn_id].is_looted
    /\ lootable_spawn'[spawn_id].looted_at_us = now

QuantityOf(inv, p, item_id) ==
    IF p \in DOMAIN inv /\ ItemIndex(inv[p].items, item_id) # 0
    THEN inv[p].items[ItemIndex(inv[p].items, item_id)].quantity
    ELSE 0

ItemIds(inv, p) == { inv[p].items[i].id : i \in 1..Len(inv[p].items) }

\* C7: lootable_loot by an in-range player on a spawn that is not looted succeeds
\* and sets is_looted = true, looted_at_us = now; an attempt with
\* now - looted_at_us < respawn_time_us fails as on-cooldown; an attempt with
\* now - looted_at_us = respawn_time_us succeeds again.
C7_LootCooldownCycle ==
    [][ \A p \in DOMAIN player, id \in DOMAIN lootable_spawn :
            LET spawn == lootable_spawn[id]
                elapsed == now - spawn.looted_at_us
            IN  (LootCall(p, id) /\ CanLoot(p) /\ Near(p, id))
                    => /\ ~spawn.is_looted => (result'.ok /\ MarkedLooted(id))
                       /\ (spawn.is_looted /\ elapsed < TypeOf(id).respawn_time_us)
                              => (~result'.ok /\ result'.err = "OnCooldown")
                       /\ (spawn.is_looted /\ elapsed = TypeOf(id).respawn_time_us)
                              => (result'.ok /\ MarkedLooted(id))
      ]_vars

C7_Witness ==
    /\ result.op = "lootable_loot"
    /\ result.ok
    /\ result.elapsed = RESPAWN_TIME

\* C8: with a monotonic clock, under any interleaving of lootable_loot and
\* lootable_check_respawns, two successful loots of a spawn are at least
\* respawn_time_us apart, and a looted spawn does not become available (reset
\* by the sweep, or looted again) before looted_at_us + respawn_time_us.
C8_RespawnSeparation ==
    [][ \A id \in DOMAIN lootable_spawn :
            /\ \A p \in Identities :
                   (LootCall(p, id) /\ result'.ok /\ last_loot_ok[id] # -1)
                       => now - last_loot_ok[id] >= TypeOf(id).respawn_time_us
            /\ (lootable_spawn[id].is_looted
                    /\ (~lootable_spawn'[id].is_looted
                            \/ \E p \in Identities : LootCall(p, id) /\ result'.ok))
                   => now >= lootable_spawn[id].looted_at_us + TypeOf(id).respawn_time_us
      ]_vars

C8_Witness ==
    /\ result.op = "lootable_loot"
    /\ result.ok
    /\ result.elapsed = -1
    /\ result.previous # -1
    /\ now - result.previous >= RESPAWN_TIME

\* C9: whenever lootable_loot returns success, the caller has an inventory whose
\* quantity of item id = spawn.type_id grew by exactly the type's quantity (a new
\* entry when there was none), no other entry and no other identity's inventory
\* changed, and the spawn is marked looted at the call's timestamp.
C9_SuccessGrantsLoot ==
    [][ \A p \in Identities, id \in DOMAIN lootable_spawn :
            LET item_id == lootable_spawn[id].type_id
            IN  (LootCall(p, id) /\ result'.ok)
                    => /\ p \in DOMAIN inventory
                       /\ DOMAIN inventory' = DOMAIN inventory
                       /\ QuantityOf(inventory', p, item_id)
                              = QuantityOf(inventory, p, item_id) + TypeOf(id).quantity
                       /\ ItemIds(inventory', p) = ItemIds(inventory, p) \cup {item_id}
                       /\ Len(inventory'[p].items) = Cardinality(ItemIds(inventory', p))
                       /\ \A other \in ItemIds(inventory', p) \ {item_id} :
                              QuantityOf(inventory', p, other) = QuantityOf(inventory, p, other)
                       /\ \A q \in DOMAIN inventory \ {p} : inventory'[q] = inventory[q]
                       /\ MarkedLooted(id)
      ]_vars

C9_Witness ==
    /\ result.op = "lootable_loot"
    /\ result.ok
    /\ Cardinality(ItemIds(inventory, result.sender)) = 2
    /\ QuantityOf(inventory, result.sender, lootable_spawn[result.spawn_id].type_id) = 10
    /\ \E q \in DOMAIN inventory \ {result.sender} : inventory[q].items # << >>

\* C10: for a caller that has a player and an entity, lootable_loot rejects in a
\* fixed order: a spawn_id that does not exist is an unknown spawn; an actor out
\* of range is rejected as out of range also when the spawn is on cooldown;
\* on-cooldown is reported only to an actor in range; a distance exactly equal
\* to loot_distance is in range.
C10_RejectionOrder ==
    [][ \A p \in DOMAIN player, id \in SpawnIds :
            (LootCall(p, id) /\ CanLoot(p))
                => IF id \notin DOMAIN lootable_spawn
                   THEN result'.err = "UnknownSpawn"
                   ELSE LET d2 == DistanceSq(EntityPosition(p), lootable_spawn[id].position)
                            range == TypeOf(id).loot_distance
                        IN  /\ d2 > range * range => result'.err = "OutOfRange"
                            /\ d2 = range * range => result'.err # "OutOfRange"
                            /\ result'.err = "OnCooldown" => d2 <= range * range
      ]_vars

C10_Witness ==
    /\ result.op = "lootable_loot"
    /\ result.err = "OutOfRange"
    /\ lootable_spawn[result.spawn_id].is_looted
    /\ now - lootable_spawn[result.spawn_id].looted_at_us < RESPAWN_TIME
    /\ \E q \in DOMAIN player :
           DistanceSq(EntityPosition(q), lootable_spawn[result.spawn_id].position)
               = TypeOf(result.spawn_id).loot_distance * TypeOf(result.spawn_id).loot_distance

\* C11: every rejected lootable_loot (the caller has no player or no entity, the
\* spawn is unknown, the actor is out of range, the spawn is on cooldown) returns
\* an error and leaves every spawn row (is_looted, looted_at_us and the rest)
\* and every inventory as they were.
C11_RejectedLootWritesNothing ==
    [][ \A p \in Identities, id \in SpawnIds :
            (LootCall(p, id) /\ ~result'.ok)
                => /\ result'.err \in {"PlayerNotFound", "EntityNotFound", "UnknownSpawn",
                                       "TypeNotFound", "OutOfRange", "OnCooldown"}
                   /\ lootable_spawn' = lootable_spawn
                   /\ inventory' = inventory
      ]_vars

C11_Witness ==
    /\ result.op = "lootable_loot"
    /\ result.err = "OnCooldown"
    /\ result.elapsed > 0
    /\ result.sender \in DOMAIN inventory
    /\ inventory[result.sender].items # << >>

SweepCall == result'.op = "lootable_check_respawns"

\* C12: lootable_check_respawns at time now resets (is_looted = false,
\* looted_at_us = 0) exactly the spawns with is_looted = true and
\* now - looted_at_us >= respawn_time_us of their type; every other spawn is
\* untouched, no spawn is added or removed, and no spawn's type_id, position or
\* rotation changes.  A sweep before any cooldown has elapsed changes nothing.
C12_SweepResetsExactlyDue ==
    [][ SweepCall
            => /\ DOMAIN lootable_spawn' = DOMAIN lootable_spawn
               /\ \A id \in DOMAIN lootable_spawn :
                      LET spawn == lootable_spawn[id]
                      IN  IF spawn.is_looted
                             /\ now - spawn.looted_at_us >= TypeOf(id).respawn_time_us
                          THEN /\ ~lootable_spawn'[id].is_looted
                               /\ lootable_spawn'[id].looted_at_us = 0
                               /\ lootable_spawn'[id].type_id = spawn.type_id
                               /\ lootable_spawn'[id].position = spawn.position
                               /\ lootable_spawn'[id].rotation = spawn.rotation
                          ELSE lootable_spawn'[id] = spawn
      ]_vars

C12_Witness ==
    /\ result.op = "lootable_check_respawns"
    /\ result.respawned # {}
    /\ \A id \in result.respawned : lootable_spawn[id] = lootable_spawn_init[id]
    /\ \E id \in DOMAIN lootable_spawn \ result.respawned :
           /\ lootable_spawn[id].is_looted
           /\ now - lootable_spawn[id].looted_at_us < RESPAWN_TIME

\* The outcome lootable_loot(spawn_id) by p would have at time t on the spawn
\* table spawns, the positions being those of the current state.
LootOutcomeAt(spawns, p, spawn_id, t) ==
    IF ~CanLoot(p) THEN "PlayerNotFound"
    ELSE IF spawn_id \notin DOMAIN spawns THEN "UnknownSpawn"
    ELSE LET spawn == spawns[spawn_id]
             item_type == lootable_item_type[spawn.type_id]
         IN  IF ~InRange(EntityPosition(p), spawn, item_type) THEN "OutOfRange"
             ELSE IF OnCooldown(spawn, item_type, t) THEN "OnCooldown"
             ELSE "Ok"

LaterTimes == { now + k * (RESPAWN_TIME \div 2) : k \in 0..MaxLootSteps }

\* C13: lootable_check_respawns is idempotent: a sweep that follows a sweep at
\* the same timestamp leaves the spawn table as the first one left it; and a
\* sweep never changes the outcome of a later lootable_loot: for every caller,
\* spawn and time from now on, the loot has the same outcome on the table after
\* the sweep as on the table before it.
C13_SweepIdempotent ==
    [][ SweepCall
            => /\ result.op = "lootable_check_respawns" => lootable_spawn' = lootable_spawn
               /\ \A p \in Identities, id \in SpawnIds, t \in LaterTimes :
                      LootOutcomeAt(lootable_spawn', p, id, t)
                          = LootOutcomeAt(lootable_spawn, p, id, t)
      ]_vars

C13_Witness ==
    /\ result.op = "lootable_check_respawns"
    /\ result.repeated
    /\ result.respawned = {}
    /\ \E id \in DOMAIN lootable_spawn :
           /\ ~lootable_spawn[id].is_looted
           /\ last_loot_ok[id] # -1
           /\ \E p \in DOMAIN player : LootOutcomeAt(lootable_spawn, p, id, now) = "Ok"

\* The lazy check of lootable_loot and the sweep agree on every looted spawn:
\* at every time from now on, the cooldown test that rejects an in-range loot
\* holds exactly when a sweep at that time would not reset the spawn.
LazyAgreesWithSweep ==
    \A id \in DOMAIN lootable_spawn, t \in LaterTimes :
        lootable_spawn[id].is_looted
            => (OnCooldown(lootable_spawn[id], TypeOf(id), t)
                    <=> ~RespawnDue(lootable_spawn[id], t))

\* The system without sweeps (lazy_spawn) gives the call just made the same
\* outcome as the system with sweeps.
SameOutcome(p, id) == result'.err = LootOutcomeOn(lazy_spawn, p, id)

\* C14 as stated: the lazy cooldown check and the sweep agree, and the system in
\* which the sweep never runs and the one in which it runs give every loot
\* attempt the same accept/reject outcome and the same resulting spawn row.
C14_Original ==
    [][ /\ LazyAgreesWithSweep
        /\ \A p \in Identities, id \in DOMAIN lootable_spawn :
               LootCall(p, id)
                   => /\ SameOutcome(p, id)
                      /\ lootable_spawn'[id] = lazy_spawn'[id]
      ]_vars

\* C14, amended: the lazy cooldown check and the sweep agree, both systems give
\* every loot attempt the same outcome, and the same resulting spawn row for
\* every attempt that is accepted or rejected as on cooldown; after any other
\* rejection the rows may differ (reset by a sweep in one system, still marked
\* looted with an elapsed cooldown in the other).
C14_LazyEquivalentToSweep ==
    [][ /\ LazyAgreesWithSweep
        /\ \A p \in Identities, id \in SpawnIds :
               LootCall(p, id)
                   => /\ SameOutcome(p, id)
                      /\ result'.err \in {"Ok", "OnCooldown"}
                             => lootable_spawn'[id] = lazy_spawn'[id]
        /\ \A id \in DOMAIN lootable_spawn :
               lootable_spawn'[id] # lazy_spawn'[id]
                   => /\ lootable_spawn'[id]
                             = [lazy_spawn'[id] EXCEPT !.is_looted = FALSE, !.looted_at_us = 0]
                      /\ lazy_spawn'[id].is_looted
                      /\ now' - lazy_spawn'[id].looted_at_us >= TypeOf(id).respawn_time_us
      ]_vars

C14_Witness ==
    /\ result.op = "lootable_loot"
    /\ result.ok
    /\ result.elapsed = -1
    /\ result.previous # -1
    /\ lazy_spawn[result.spawn_id] = lootable_spawn[result.spawn_id]
    /\ \E id \in DOMAIN lootable_spawn : lazy_spawn[id] # lootable_spawn[id]

(***************************************************************************)
(* Navmesh claims, over the navmesh specification.                         *)
(***************************************************************************)
HasConfig == 0 \in DOMAIN navmesh_config

\* The cell of a coordinate under the configuration in force.
CellX(x) == (x - navmesh_config[0].bounds_min_x) \div navmesh_config[0].cell_size

CellZ(z) == (z - navmesh_config[0].bounds_min_z) \div navmesh_config[0].cell_size

\* The rows of the 3x3 block of cells around the cell of candidate c.
Scanned(c) ==
    { pt \in navmesh_grid : /\ Abs(pt.grid_x - CellX(c.x)) <= 1
                            /\ Abs(pt.grid_z - CellZ(c.z)) <= 1 }

\* C15: with a configuration loaded, is_position_valid is reflexive: for every
\* row stored in navmesh_grid, whatever grid_x/grid_z it was uploaded with and
\* whatever the configuration has become since, the row's own (x, y, z) is valid.
C15_Reflexive ==
    HasConfig => \A pt \in navmesh_grid : Walkable(Vec3(pt.x, pt.y, pt.z))

\* C16: the horizontal boundary is inclusive at cell_size x 1.5: a candidate at
\* the height of a stored point and at horizontal distance exactly
\* cell_size x 1.5 from it is valid; a candidate whose horizontal distance to
\* every stored point exceeds cell_size x 1.5 is rejected.
C16_HorizontalBoundary ==
    HasConfig
        => LET reach == 9 * navmesh_config[0].cell_size * navmesh_config[0].cell_size
           IN  \A c \in NavCandidates :
                   /\ (\E pt \in navmesh_grid :
                           /\ pt.y = c.y
                           /\ 4 * HorizontalSq(c, pt) = reach) => Walkable(c)
                   /\ (\A pt \in navmesh_grid : 4 * HorizontalSq(c, pt) > reach)
                          => ~Walkable(c)

C18_FailOpen ==
    [][ \A c \in NavCandidates :
            /\ ~HasConfig => Walkable(c)
            /\ (HasConfig /\ navmesh_grid = {}) => ~Walkable(c)
            /\ \A p \in Identities :
                   SetPositionCall(p, c)
                       => /\ ~HasConfig => result'.err # "InvalidSurface"
                          /\ (HasConfig /\ navmesh_grid = {} /\ CanLoot(p))
                                 => result'.err = "InvalidSurface"
      ]_vars

C18_Witness ==
    /\ ~HasConfig
    /\ navmesh_grid # {}
    /\ result.op = "player_set_position"
    /\ result.ok
    /\ \A pt \in navmesh_grid : HorizontalSq(result.position, pt) > 25

\* C19: the navmesh configuration is a singleton that is never missing once
\* set: every state has at most one configuration row, of id 0; a step from a
\* state with the row leads to a state with the row; after navmesh_set_config
\* the row holds the values of that call, and no other call changes it.
C19_ConfigSingleton ==
    [][ /\ DOMAIN navmesh_config \subseteq {0}
        /\ DOMAIN navmesh_config' \subseteq {0}
        /\ HasConfig => 0 \in DOMAIN navmesh_config'
        /\ IF result'.op = "navmesh_set_config"
           THEN navmesh_config'[0] = result'.config
           ELSE navmesh_config' = navmesh_config
      ]_vars

C19_Witness ==
    /\ result.op = "navmesh_set_config"
    /\ navmesh_config[0] = result.config
    /\ result.config.bounds_min_x = -4
    /\ \E pt \in navmesh_grid : pt.grid_x # CellX(pt.x)

\* C20: every row of navmesh_grid is stored with the cell of its world
\* coordinates under the configuration in force at the upload:
\* grid_x = floor((x - bounds_min_x) / cell_size) and
\* grid_z = floor((z - bounds_min_z) / cell_size), the mapping is_position_valid
\* applies to a candidate.
C20_GridDerivedAtUpload ==
    [][ (result'.op = "navmesh_upload_point" /\ HasConfig)
            => \A pt \in navmesh_grid' \ navmesh_grid :
                   /\ pt.grid_x = CellX(pt.x)
                   /\ pt.grid_z = CellZ(pt.z)
      ]_vars

\* C21: player_set_position by one player, accepted or rejected, leaves every
\* other player's row and every other entity's position as they were, creates
\* and deletes no player or entity, and changes neither the navmesh tables nor
\* the lootable tables.
C21_SetPositionFrame ==
    [][ \A p \in Identities, c \in MovePositions :
            SetPositionCall(p, c)
                => /\ DOMAIN player' = DOMAIN player
                   /\ DOMAIN entity' = DOMAIN entity
                   /\ \A q \in DOMAIN player \ {p} : player'[q] = player[q]
                   /\ \A e \in DOMAIN entity :
                          (p \notin DOMAIN player \/ e # player[p].entity_id)
                              => entity'[e].position = entity[e].position
                   /\ navmesh_config' = navmesh_config
                   /\ navmesh_grid' = navmesh_grid
                   /\ lootable_spawn' = lootable_spawn
                   /\ lootable_item_type' = lootable_item_type
      ]_vars

C21_Witness ==
    /\ result.op = "player_set_position"
    /\ result.ok
    /\ navmesh_grid # {}
    /\ 0 \in DOMAIN navmesh_config
    /\ \E q \in DOMAIN player \ {result.sender} :
           /\ EntityPosition(q) # EntityPosition(result.sender)
           /\ EntityPosition(q) # SpawnPoint
           /\ EntityPosition(result.sender) # SpawnPoint

(***************************************************************************)
(* Administration claims, over the administration specification.           *)
(***************************************************************************)
\* C22: a spawn is never deleted except by an admin: no call by an identity
\* that is not in the admin table, lootable_delete_spawn and
\* lootable_delete_all_spawns_of_type included, removes a row of lootable_spawn.
C22_OnlyAdminDeletesSpawn ==
    [][ \A p \in Identities :
            (result'.op # "none" /\ result'.sender = p /\ ~is_admin(p))
                => DOMAIN lootable_spawn \subseteq DOMAIN lootable_spawn'
      ]_vars

AdminGated ==
    { "admin_add", "admin_remove", "lootable_create_type", "lootable_create_spawn",
      "inventory_add_item", "inventory_remove_item" }

\* C30: the admin table changes only through admin_add and admin_remove called
\* by an identity in the table; it is empty after init and stays empty, so every
\* call of admin_add, admin_remove, lootable_create_type, lootable_create_spawn,
\* inventory_add_item and inventory_remove_item is refused and changes no table.
C30_AdminTableStaysEmpty ==
    [][ /\ admin = {}
        /\ admin' = {}
        /\ result'.op \in AdminGated
               => /\ ~result'.ok
                  /\ result'.err = "Unauthorized"
                  /\ UNCHANGED << now, world_spawn, entity, entity_seq, player, player_seq,
                                  inventory, navmesh_config, navmesh_grid, navmesh_seq,
                                  lootable_item_type, lootable_spawn, lootable_spawn_seq,
                                  admin >>
      ]_vars

C30_Witness ==
    /\ result.op = "lootable_create_spawn"
    /\ ~result.ok
    /\ result.sender \in DOMAIN player
    /\ admin = {}
    /\ DOMAIN lootable_spawn \subseteq DOMAIN lootable_spawn_init

\* C23: the sweep returns count_respawned: the value it reports to its caller
\* is the number of spawns it reset from looted to available in that call.
C23_SweepReturnsCount ==
    [][ SweepCall
            => result'.reported
                   = { Cardinality({ id \in DOMAIN lootable_spawn :
                                         /\ lootable_spawn[id].is_looted
                                         /\ ~lootable_spawn'[id].is_looted }) }
      ]_vars

(***************************************************************************)
(* Movement claims over the update specification.                          *)
(***************************************************************************)
\* A call that moves p to candidate c: player_set_position or player_update.
MoveCall(p, c) ==
    /\ result'.op \in {"player_set_position", "player_update"}
    /\ result'.sender = p
    /\ result'.position = c

\* C24: vertical motion is exempt from the speed gate: a walkable candidate
\* with the X and Z of the current entity position is never rejected for speed,
\* whatever its Y displacement and whatever the elapsed time; it is accepted.
C24_VerticalExempt ==
    [][ \A p \in DOMAIN player, c \in UpdatePositions :
            (MoveCall(p, c) /\ CanLoot(p) /\ Walkable(c)
                 /\ c.x = EntityPosition(p).x /\ c.z = EntityPosition(p).z)
                => /\ result'.err # "SpeedViolation"
                   /\ result'.ok
                   /\ entity'[player[p].entity_id].position = c
      ]_vars

C24_Witness ==
    /\ result.op = "player_update"
    /\ result.ok
    /\ SpeedChecked(result.dt)
    /\ result.from.x = result.position.x
    /\ result.from.z = result.position.z
    /\ Abs(result.position.y - result.from.y) > 100

\* C26: in every state between reducer calls each player's entity position
\* equals the player's last_valid_position: at player_create, after every
\* accepted and every rejected update, whether the host keeps or discards the
\* writes of a reducer that returned an error.
C26_EntityAtLastValid ==
    \A p \in DOMAIN player :
        player[p].entity_id \in DOMAIN entity
            => EntityPosition(p) = player[p].last_valid_position

C26_Witness ==
    /\ result.op \in {"player_set_position", "player_update"}
    /\ ~result.ok
    /\ result.err = "SpeedViolation"
    /\ EntityPosition(result.sender) # SpawnPoint
    /\ EntityPosition(result.sender) = player[result.sender].last_valid_position
    /\ EntityPosition(result.sender) = accepted[result.sender]

\* C28: player_update is all-or-nothing with respect to the position check:
\* when the position is rejected (invalid surface or speed violation) the call
\* returns the error and the entity's rotation and the player's animation state
\* are as before; an accepted call stores the position, the rotation and the
\* animation state it was given.
C28_UpdateAllOrNothing ==
    [][ \A p \in DOMAIN player :
            (result'.op = "player_update" /\ result'.sender = p /\ CanLoot(p))
                => LET id == player[p].entity_id
                   IN  IF result'.ok
                       THEN /\ Walkable(result'.position)
                            /\ entity'[id].position = result'.position
                            /\ entity'[id].rotation = result'.rotation
                            /\ player'[p].animation_state = result'.animation_state
                       ELSE /\ result'.err \in {"InvalidSurface", "SpeedViolation"}
                            /\ entity'[id].rotation = entity[id].rotation
                            /\ player'[p].animation_state = player[p].animation_state
                            /\ entity'[id].position = player[p].last_valid_position
      ]_vars

C28_Witness ==
    /\ result.op = "player_update"
    /\ ~result.ok
    /\ result.err = "InvalidSurface"
    /\ entity[player[result.sender].entity_id].rotation \notin {ZeroVec, result.rotation}
    /\ player[result.sender].animation_state \notin {0, result.animation_state}

\* C25: whenever lootable_loot rejects as on cooldown (the clock never goes
\* back), the remaining time it reports, in clock units before the conversion
\* to seconds, is respawn_time_us - (now - looted_at_us), is strictly positive
\* and is at most respawn_time_us.
C25_RemainingTime ==
    [][ \A p \in Identities, id \in DOMAIN lootable_spawn :
            (LootCall(p, id) /\ result'.err = "OnCooldown")
                => /\ result'.remaining
                          = TypeOf(id).respawn_time_us - (now - lootable_spawn[id].looted_at_us)
                   /\ result'.remaining > 0
                   /\ result'.remaining <= TypeOf(id).respawn_time_us
      ]_vars

C25_Witness ==
    /\ result.op = "lootable_loot"
    /\ result.err = "OnCooldown"
    /\ lootable_spawn[result.spawn_id].looted_at_us > 0
    /\ result.remaining = RESPAWN_TIME - (now - lootable_spawn[result.spawn_id].looted_at_us)
    /\ result.remaining < RESPAWN_TIME

\* C27: in every reachable state each spawn has looted_at_us = 0 when it is not
\* looted, and when it is looted its looted_at_us is the time of the most
\* recent successful loot of that spawn and is not later than the clock.
C27_SpawnInvariant ==
    \A id \in DOMAIN lootable_spawn :
        IF lootable_spawn[id].is_looted
        THEN /\ last_loot_ok[id] # -1
             /\ lootable_spawn[id].looted_at_us = last_loot_ok[id]
             /\ lootable_spawn[id].looted_at_us <= now
        ELSE lootable_spawn[id].looted_at_us = 0

C27_Witness ==
    /\ \E id \in DOMAIN lootable_spawn :
           /\ lootable_spawn[id].is_looted
           /\ lootable_spawn[id].looted_at_us > 0
           /\ lootable_spawn[id].looted_at_us < now
    /\ \E id \in DOMAIN lootable_spawn :
           /\ ~lootable_spawn[id].is_looted
           /\ last_loot_ok[id] # -1

\* C29: after world_spawn_set(id, position, rotation) the world_spawn row id
\* holds the given position and rotation, also when the call creates the row;
\* hence row 0 holds the position and rotation passed by world_spawn_init, and
\* a player created after init starts with entity position and
\* last_valid_position equal to that position.
C29_WorldSpawnSetStoresArguments ==
    [][ /\ 0 \in DOMAIN world_spawn'
        /\ world_spawn'[0] = [position |-> Vec3(0, 8, 0), rotation |-> ZeroVec]
        /\ \A p \in DOMAIN player' \ DOMAIN player :
               /\ entity'[player'[p].entity_id].position = Vec3(0, 8, 0)
               /\ player'[p].last_valid_position = Vec3(0, 8, 0) ]_vars

====
